---------------------------- MODULE Spec2Model ----------------------------
(***************************************************************************)
(* Verification model of align_audio: the anchor estimators and the shift  *)
(* command builder of align_first_anchor.py, the job wrapper of            *)
(* app/services/alignment_service.py and the HTTP job routes of            *)
(* app/routes/alignment.py.                                                *)
(*                                                                         *)
(* Representation of the program's numbers                                 *)
(*   time    an integer number of ticks, one tick = 1/8 microsecond, so    *)
(*           that 1e-6 s, 1 ms and one sample period at every modelled     *)
(*           sample rate are whole numbers of ticks.  Python computes the  *)
(*           same quantities in binary floating point; the model computes  *)
(*           them exactly.                                                 *)
(*   sample  an integer number of amplitude units of 1e-6 full scale, so   *)
(*           that the 1e-12 floor the code adds to correlation norms is    *)
(*           exactly one unit of energy.                                   *)
(***************************************************************************)
EXTENDS Integers, Sequences, FiniteSets, TLC

VARIABLES
    call,        \* arguments of a direct call of build_align_command
    ret,         \* what that call produced (returned command or raised error)
    issued,      \* job ids uuid4 has handed out
    jobs,        \* data/jobs/<job_id>.json, per job id
    fs,          \* directories and files under data/tmp, data/uploads, data/results
    task,        \* position of each job's background task _run
    req,         \* what each job's _run closure captured (params, source paths)
    resp,        \* the HTTP response of the latest request
    args,        \* one alignment run: the raw signals and the parameters
    pc,          \* where that run stands: window, anchor, command, apply, done
    a_an,        \* analysis copy of the in-house (reference) signal
    b_an,        \* analysis copy of the external (target) signal
    anchor,      \* offset_sec, best_b and the similarity curve of the run
    cmd,         \* the command build_align_command returned to the run
    shift,       \* how far the applied command moved the file's timeline
    purge        \* one run of purge_jobs.py: its flag, clock and progress

cmdVars == <<call, ret>>
svcVars == <<issued, jobs, fs, task, req, resp>>
runVars == <<args, pc, a_an, b_an, anchor, cmd, shift>>
vars == <<call, ret, issued, jobs, fs, task, req, resp,
          args, pc, a_an, b_an, anchor, cmd, shift, purge>>

----------------------------------------------------------------------------
(* Units *)

TicksPerSec == 8 * 1000000
TicksPerMs == TicksPerSec \div 1000
TicksPerUs == TicksPerSec \div 1000000

\* The 1e-6 s dead zone of build_align_command, in ticks.
DeadZone == TicksPerSec \div 1000000

Abs(x) == IF x < 0 THEN -x ELSE x
Max(x, y) == IF x >= y THEN x ELSE y
Min(x, y) == IF x <= y THEN x ELSE y

\* Python's round() and the "f" format round to nearest, ties to even.
\* n / d for d > 0, as an integer.
RoundHalfEven(n, d) ==
    LET q == n \div d
        r == n - q * d
    IN  IF 2 * r < d THEN q
        ELSE IF 2 * r > d THEN q + 1
        ELSE IF q % 2 = 0 THEN q ELSE q + 1

\* The w decimal digits of n, most significant first.
Digits(n, w) == [i \in 1..w |-> (n \div (10 ^ (w - i))) % 10]

----------------------------------------------------------------------------
(* align_first_anchor.py: the shift command builder *)

Modes == {"external_to_inhouse", "inhouse_to_external"}

\* A command string, by its parts.  ss and adelay are <<>> when the option
\* is not in the string.
NoCommand ==
    [input |-> "", ac |-> 0, ar |-> 0, ss |-> <<>>, adelay |-> <<>>,
     codec |-> "", rf64 |-> "", output |-> ""]

\* ffmpeg_time_format cutting the digits off instead of rounding them.
ffmpeg_time_format_truncating(seconds) ==
    LET us == Max(0, seconds) \div TicksPerUs
    IN  <<us \div 1000000>> \o Digits(us % 1000000, 6)

\* f"{max(0.0, seconds):.6f}": whole seconds, then exactly six decimals.
ffmpeg_time_format(seconds) ==
    LET us == RoundHalfEven(Max(0, seconds), TicksPerUs)
    IN  <<us \div 1000000>> \o Digits(us % 1000000, 6)

\* effective_offset without the sign flip of the else branch.
effective_offset_unflipped(mode, offset_sec) == offset_sec

\* Which file moves, and the sign flip for inhouse_to_external.
effective_offset(mode, offset_sec) ==
    IF mode = "external_to_inhouse" THEN offset_sec ELSE -offset_sec

\* move_target without the direction: the external file always moves.
move_target_external_only(mode, inhouse_path, external_path) == external_path

move_target(mode, inhouse_path, external_path) ==
    IF mode = "external_to_inhouse" THEN external_path ELSE inhouse_path

default_out(mode) ==
    IF mode = "external_to_inhouse" THEN "external_aligned.wav"
    ELSE "inhouse_aligned.wav"

\* shift_kind comparing against zero: the 1e-6 dead zone is lost.
shift_kind_no_dead_zone(e, prefer_trim) ==
    IF e < 0 THEN "trim"
    ELSE IF e > 0 THEN "pad"
    ELSE "passthrough"

\* shift_kind honouring prefer_trim as the docstring describes it: without
\* the flag, an advance of less than a millisecond is left alone.
shift_kind_honouring_flag(e, prefer_trim) ==
    IF e < -DeadZone /\ (prefer_trim \/ e <= -TicksPerMs) THEN "trim"
    ELSE IF e > DeadZone THEN "pad"
    ELSE "passthrough"

\* The if / elif / else on the effective offset.  prefer_trim is in scope
\* in the code and is not read.
shift_kind(e, prefer_trim) ==
    IF e < -DeadZone THEN "trim"
    ELSE IF e > DeadZone THEN "pad"
    ELSE "passthrough"

\* int(round(effective_offset * 1000.0))
pad_ms(e) == RoundHalfEven(e, TicksPerMs)

build_align_command(inhouse_path, external_path, sr, mode, offset_sec, prefer_trim, out_audio) ==
    IF mode \notin Modes
    THEN [raised |-> "ValueError", value |-> NoCommand]
    ELSE
      LET target == move_target(mode, inhouse_path, external_path)
          e == effective_offset(mode, offset_sec)
          \* out_audio or default_out: None and "" both give the default
          out_path == IF out_audio \in {"None", ""} THEN default_out(mode)
                      ELSE out_audio
          kind == shift_kind(e, prefer_trim)
          base == [input |-> target, ac |-> 1, ar |-> sr, ss |-> <<>>,
                   adelay |-> <<>>, codec |-> "pcm_s16le",
                   rf64 |-> "always", output |-> out_path]
      IN  [raised |-> "",
           value |->
             IF kind = "trim"
             THEN [base EXCEPT !.ss = ffmpeg_time_format(Abs(e))]
             ELSE IF kind = "pad"
             THEN [base EXCEPT !.adelay = <<pad_ms(e), pad_ms(e)>>]
             ELSE base]

IsTrim(c) == c.ss # <<>>
IsPad(c) == c.adelay # <<>>
IsPassthrough(c) == c # NoCommand /\ c.ss = <<>> /\ c.adelay = <<>>

----------------------------------------------------------------------------
(* Direct calls of build_align_command *)

\* Bounds of the offsets tried: every tick up to MaxFineTicks around zero
\* (the dead zone and the microsecond rounding), and every half millisecond
\* up to MaxHalfMs of them, one tick either side (the millisecond rounding).
MaxFineTicks == 13
MaxHalfMs == 4

HalfMs == TicksPerMs \div 2

Offsets ==
    (-MaxFineTicks..MaxFineTicks)
    \cup {s * (h * HalfMs + d) : s \in {-1, 1}, h \in 1..MaxHalfMs, d \in -1..1}

BadModes == {"", "external_to_external"}
AllModes == Modes \cup BadModes

NotCalled == [raised |-> "NotCalled", value |-> NoCommand]

CallInputs ==
    [inhouse_path : {"inhouse.wav"}, external_path : {"external.wav"},
     sr : {8000, 48000}, mode : AllModes, offset_sec : Offsets,
     prefer_trim : BOOLEAN,
     out_audio : {"None", "", "out.wav", "inhouse.wav", "external.wav"}]

BuildOf(c) ==
    build_align_command(c.inhouse_path, c.external_path, c.sr, c.mode,
                        c.offset_sec, c.prefer_trim, c.out_audio)

CallBuild ==
    /\ ret = NotCalled
    /\ ret' = BuildOf(call)
    /\ UNCHANGED <<call, svcVars, runVars, purge>>

----------------------------------------------------------------------------
(* app/models.py, app/routes/alignment.py, app/services/alignment_service.py:
   the job service *)

\* Bound: how many jobs are posted.
MaxJobs == 2

JobIds == 1..MaxJobs

AnchorModes == {"xcorr", "content"}

\* AlignmentParameters without the pattern on mode.
ValidParameters_no_mode_pattern(p) == p.anchor_mode \in AnchorModes

\* AlignmentParameters: the two pattern-constrained fields.
ValidParameters(p) == p.mode \in Modes /\ p.anchor_mode \in AnchorModes

\* Python values as json.loads / the service produce them.  A result is
\* None, the dict read back from the job file, or an AlignmentResult.
PyNone ==
    [pytype |-> "NoneType", job_id |-> 0, offset_sec |-> 0,
     ffmpeg_command |-> NoCommand, inhouse_path |-> <<>>,
     external_path |-> <<>>, aligned_audio_path |-> <<>>,
     waveform_png_path |-> <<>>, similarity_png_path |-> <<>>, logs |-> <<>>]

\* obj.name: instances of AlignmentResult have the attributes; a dict has
\* keys, and attribute access on it raises AttributeError.
PyHasAttr(obj) == obj.pytype = "AlignmentResult"

\* A timestamp key of a job record: absent, not ISO 8601, or a datetime
\* without or with a UTC offset, in days.
NoStamp == [kind |-> "absent", day |-> 0]

\* jobs/<job_id>.json: whether the file exists and parses as JSON, the keys
\* it holds, and their values.  The retention keys are read by the purge;
\* an optional key that is missing holds "absent".
NoFile ==
    [exists |-> FALSE, readable |-> TRUE, keys |-> {}, status |-> "", result |-> PyNone,
     error |-> "", created_at |-> NoStamp, expires_at |-> NoStamp,
     has_raw_audio |-> "absent", pinned |-> "absent"]

NoRequest == [mode |-> "", anchor_mode |-> "", apply |-> FALSE, prefer_trim |-> FALSE, sr |-> 0, inhouse_name |-> "", external_name |-> ""]

NoResponse ==
    [op |-> "", code |-> 0, job_id |-> 0, status |-> "", has_offset |-> FALSE,
     offset_sec |-> 0, ffmpeg_command |-> NoCommand, inhouse_url |-> <<>>,
     external_url |-> <<>>, aligned_audio_url |-> <<>>]

Dir(path) == [path |-> path, kind |-> "dir"]
File(path) == [path |-> path, kind |-> "file"]

\* _read_job: None when the file is missing
_read_job(job_id) == jobs[job_id]

\* _write_job(job_id, data)
_write_job(job_id, data) == [jobs EXCEPT ![job_id] = data]

\* The request parameters tried.
Requests ==
    [mode : AllModes, anchor_mode : {"xcorr"}, apply : BOOLEAN,
     prefer_trim : {FALSE}, sr : {8000},
     inhouse_name : {"inhouse.wav"}, external_name : {"external.wav"}]

\* POST /api/v1/alignments.  Lines 58-131 in order: the id, the parameter
\* model (which raises on a bad pattern, before anything is written), the
\* tmp directory and the two uploads, the queued record, the task.
create_alignment_job(job_id, r) ==
    /\ job_id \notin issued
    /\ issued' = issued \cup {job_id}
    /\ IF ~ValidParameters(r)
       THEN /\ resp' = [NoResponse EXCEPT !.op = "POST", !.code = 500, !.job_id = job_id]
            /\ UNCHANGED <<jobs, fs, task, req>>
       ELSE /\ fs' = fs \cup {Dir(<<"tmp", job_id>>),
                             File(<<"tmp", job_id, r.inhouse_name>>),
                             File(<<"tmp", job_id, r.external_name>>)}
            /\ jobs' = _write_job(job_id,
                         [NoFile EXCEPT !.exists = TRUE, !.keys = {"status", "result"},
                                        !.status = "queued"])
            /\ req' = [req EXCEPT ![job_id] = r]
            /\ task' = [task EXCEPT ![job_id] = "scheduled"]
            /\ resp' = [NoResponse EXCEPT !.op = "POST", !.code = 202,
                                          !.job_id = job_id, !.status = "queued"]
    /\ UNCHANGED <<cmdVars, runVars, purge>>

PostJob == \E job_id \in JobIds, r \in Requests : create_alignment_job(job_id, r)

\* Offsets the estimators may report for the uploaded audio.
JobOffsets == {-TicksPerMs, 0, TicksPerMs}

UploadPath(job_id, side, name) == <<"uploads", job_id, side, name>>
ResultPath(job_id, name) == <<"results", job_id, name>>

\* str(path) of a path under MEDIA_ROOT = data
PathStr(path) ==
    "data/" \o path[1] \o "/" \o ToString(path[2]) \o "/" \o path[3]
    \o (IF Len(path) > 3 THEN "/" \o path[4] ELSE "")

\* _ensure_dirs and the copy of the two sources into uploads/<job_id>
StagedFiles(job_id, r) ==
    {Dir(<<"uploads", job_id>>), Dir(<<"results", job_id>>),
     Dir(<<"uploads", job_id, "inhouse">>), Dir(<<"uploads", job_id, "external">>),
     File(UploadPath(job_id, "inhouse", r.inhouse_name)),
     File(UploadPath(job_id, "external", r.external_name))}

\* The exit codes tried for the applied command.
ExitCodes == {0, 1, 2}

\* The apply stage: with apply set the command is handed to run_shell once;
\* a non-zero exit code is logged and leaves the aligned path None.  Of the
\* log only the lines of this stage are kept.
apply_stage_ignoring_rc(apply, rc, out_audio_path) ==
    IF ~apply THEN [aligned_audio_path |-> <<>>, logs |-> <<>>]
    ELSE [aligned_audio_path |-> out_audio_path,
          logs |-> <<"Applying alignment with FFmpeg...",
                     "Alignment applied successfully.">>]

apply_stage(apply, rc, out_audio_path) ==
    IF ~apply THEN [aligned_audio_path |-> <<>>, logs |-> <<>>]
    ELSE IF rc # 0
    THEN [aligned_audio_path |-> <<>>,
          logs |-> <<"Applying alignment with FFmpeg...",
                     "[ERROR] FFmpeg returned non-zero exit code: " \o ToString(rc)>>]
    ELSE [aligned_audio_path |-> out_audio_path,
          logs |-> <<"Applying alignment with FFmpeg...",
                     "Alignment applied successfully.">>]

\* run_alignment_job, seen from the service: what it returns or raises and
\* the files it leaves.  The audio decides three things the service cannot:
\* whether load_mono can decode it, the offset the estimator finds, and the
\* exit code of the applied command.
run_alignment_job(job_id, r, decodable, offset, rc) ==
    LET inhouse_path == UploadPath(job_id, "inhouse", r.inhouse_name)
        external_path == UploadPath(job_id, "external", r.external_name)
        out_audio_path == ResultPath(job_id, "aligned.wav")
        built == build_align_command(PathStr(inhouse_path), PathStr(external_path),
                                     r.sr, r.mode, offset, r.prefer_trim,
                                     IF r.apply THEN PathStr(out_audio_path)
                                     ELSE "None")
        stage == apply_stage(r.apply, rc, out_audio_path)
        applied == r.apply /\ rc = 0
        plots == {File(ResultPath(job_id, "waveform_overlay.png")),
                  File(ResultPath(job_id, "similarity_curve.png"))}
    IN  IF ~decodable
        THEN [raised |-> "load_mono", result |-> PyNone, files |-> StagedFiles(job_id, r)]
        ELSE IF built.raised # ""
        THEN [raised |-> built.raised, result |-> PyNone,
              files |-> StagedFiles(job_id, r) \cup plots]
        ELSE [raised |-> "",
              result |->
                [pytype |-> "AlignmentResult", job_id |-> job_id,
                 offset_sec |-> offset, ffmpeg_command |-> built.value,
                 inhouse_path |-> inhouse_path, external_path |-> external_path,
                 aligned_audio_path |-> stage.aligned_audio_path,
                 waveform_png_path |-> ResultPath(job_id, "waveform_overlay.png"),
                 similarity_png_path |-> ResultPath(job_id, "similarity_curve.png"),
                 logs |-> stage.logs],
              files |-> StagedFiles(job_id, r) \cup plots
                        \cup (IF applied THEN {File(out_audio_path)} ELSE {})]

\* json.dumps of the result fields and json.loads of the file give a dict.
AsJsonDict(result) == [result EXCEPT !.pytype = "dict"]

\* _run, first half: read the record (or {}), mark it running, write it.
RunStart(job_id) ==
    /\ task[job_id] = "scheduled"
    /\ LET job_data == _read_job(job_id)
       IN  jobs' = _write_job(job_id,
                     IF job_data.exists
                     THEN [job_data EXCEPT !.status = "running"]
                     ELSE [NoFile EXCEPT !.exists = TRUE, !.keys = {"status"},
                                         !.status = "running"])
    /\ task' = [task EXCEPT ![job_id] = "running"]
    /\ UNCHANGED <<cmdVars, runVars, purge, issued, fs, req, resp>>

\* The record without the except clause: an exception leaves the record as
\* the first half wrote it.
finished_record_unhandled(out) ==
    IF out.raised = ""
    THEN [NoFile EXCEPT !.exists = TRUE, !.keys = {"status", "result"},
                        !.status = "completed", !.result = AsJsonDict(out.result)]
    ELSE [NoFile EXCEPT !.exists = TRUE, !.keys = {"status", "result"},
                        !.status = "running"]

\* The record _run writes at its end: completed with the result fields, or,
\* from the except clause, failed with str(exc).
finished_record(out) ==
    IF out.raised = ""
    THEN [NoFile EXCEPT !.exists = TRUE, !.keys = {"status", "result"},
                        !.status = "completed", !.result = AsJsonDict(out.result)]
    ELSE [NoFile EXCEPT !.exists = TRUE, !.keys = {"status", "error"},
                        !.status = "failed", !.error = out.raised]

\* _run, second half: the alignment, then completed with the result or
\* failed with the error.
RunAlignment(job_id) ==
    /\ task[job_id] = "running"
    /\ \E decodable \in BOOLEAN, offset \in JobOffsets, rc \in ExitCodes :
         LET out == run_alignment_job(job_id, req[job_id], decodable, offset, rc)
         IN  /\ fs' = fs \cup out.files
             /\ jobs' = _write_job(job_id, finished_record(out))
    /\ task' = [task EXCEPT ![job_id] = "done"]
    /\ UNCHANGED <<cmdVars, runVars, purge, issued, req, resp>>

\* rel(): /media/<path relative to MEDIA_ROOT>, None for None
rel(path) == IF path = <<>> THEN <<>> ELSE <<"/media">> \o path

\* _write_job truncates the file and writes it in place, from the worker
\* thread of the background task, while GET reads it from the event loop: a
\* read that falls inside one of the task's two writes finds an empty or
\* partial file, or the whole of it.
ReadOutcomes(job_id) ==
    IF jobs[job_id].exists /\ task[job_id] \in {"scheduled", "running"}
    THEN {"whole", "partial"} ELSE {"whole"}

\* GET /api/v1/alignments/{job_id}
get_alignment_job(job_id) ==
    LET job == _read_job(job_id)
        result == job.result
        answer == [NoResponse EXCEPT !.op = "GET", !.job_id = job_id]
    IN  /\ \E read \in ReadOutcomes(job_id) :
           resp' =
             IF ~job.exists
             THEN [answer EXCEPT !.code = 404]
             ELSE IF read = "partial"
             THEN [answer EXCEPT !.code = 500]
             ELSE IF job.status # "completed" \/ result.pytype = "NoneType"
             THEN [answer EXCEPT !.code = 200, !.status = job.status]
             ELSE IF ~PyHasAttr(result)
             THEN [answer EXCEPT !.code = 500]
             ELSE [answer EXCEPT !.code = 200, !.job_id = result.job_id,
                                 !.status = job.status, !.has_offset = TRUE,
                                 !.offset_sec = result.offset_sec,
                                 !.ffmpeg_command = result.ffmpeg_command,
                                 !.inhouse_url = rel(result.inhouse_path),
                                 !.external_url = rel(result.external_path),
                                 !.aligned_audio_url = rel(result.aligned_audio_path)]
        /\ UNCHANGED <<cmdVars, runVars, purge, issued, jobs, fs, task, req>>

GetJob == \E job_id \in JobIds : get_alignment_job(job_id)

StartTask == \E job_id \in JobIds : RunStart(job_id)

FinishTask == \E job_id \in JobIds : RunAlignment(job_id)

----------------------------------------------------------------------------
(* The offset estimators.  A signal is a sequence of integer samples in
   units of 1e-6 of full scale, so the 1e-12 the estimator adds to its
   denominator is exactly one unit of energy. *)

Period(sr) == TicksPerSec \div sr

\* int(seconds * sr): the whole samples in a time, truncated toward zero.
SamplesIn(seconds, sr) ==
    IF seconds >= 0 THEN seconds \div Period(sr) ELSE -((-seconds) \div Period(sr))

RECURSIVE SumSeq(_)
SumSeq(s) == IF s = <<>> THEN 0 ELSE Head(s) + SumSeq(Tail(s))

\* y[start:stop] with Python's clamping, for 0 <= start.
PySlice(y, start, stop) == SubSeq(y, Min(start, Len(y)) + 1, Min(Max(stop, 0), Len(y)))

\* threshold_db is held as the linear level it stands for, 0 for None: a
\* sample is zeroed when 20*log10(|y| + 1e-12) is below the threshold.
apply_gate_db(y, threshold_db) ==
    IF threshold_db = 0 THEN y
    ELSE [i \in 1..Len(y) |-> IF Abs(y[i]) < threshold_db THEN 0 ELSE y[i]]

\* y - mean(y), scaled by len(y) to stay in the integers; the scale is the
\* same for every lag, so the argmax and the normalized scores are unchanged.
zero_mean(y) == [i \in 1..Len(y) |-> Len(y) * y[i] - SumSeq(y)]

\* corr_full at one lag: sum over n of a0[n + lag] * b0[n].
correlate_at(a0, b0, lag) ==
    SumSeq([n \in 1..Len(b0) |->
        IF n + lag >= 1 /\ n + lag <= Len(a0) THEN a0[n + lag] * b0[n] ELSE 0])

\* max_lag without the search bound: always the fallback.
max_lag_fallback_only(na, nb, sr, max_search) == Min(na, nb) - 1

max_lag(na, nb, sr, max_search) ==
    IF max_search > 0 THEN SamplesIn(max_search, sr) ELSE Min(na, nb) - 1

\* np.argmax: the first index that holds the maximum.
argmax(c) ==
    CHOOSE i \in 1..Len(c) :
        /\ \A j \in 1..Len(c) : c[j] <= c[i]
        /\ \A j \in 1..(i - 1) : c[j] < c[i]

lag_to_offset_unnegated(best_lag, sr) == best_lag * Period(sr)

lag_to_offset(best_lag, sr) == -best_lag * Period(sr)

energy(y0) == SumSeq([i \in 1..Len(y0) |-> y0[i] * y0[i]])

denominator_eps_dropped(na, nb) == 0

\* The 1e-12 added to the denominator, on the scale of the scaled energies.
denominator_eps(na, nb) == na * nb

\* The returned triple.  The score at index i is
\* corr[i] / (sqrt(energy_a * energy_b) + eps), kept as its exact parts.
estimate_offset_seconds(a, b, sr, max_search) ==
    IF Len(a) = 0 \/ Len(b) = 0
    THEN [offset_sec |-> 0, lags_sec |-> <<0>>, corr |-> <<1>>,
          energy_a |-> 1, energy_b |-> 1, eps |-> 0]
    ELSE LET a0 == zero_mean(a)
             b0 == zero_mean(b)
             ml == max_lag(Len(a0), Len(b0), sr, max_search)
             lo == Max(-Len(b0) + 1, -ml)
             hi == Min(Len(a0) - 1, ml)
             lags == [i \in 1..(hi - lo + 1) |-> lo + i - 1]
             corr == [i \in 1..Len(lags) |-> correlate_at(a0, b0, lags[i])]
             best_idx == argmax(corr)
         IN  [offset_sec |-> lag_to_offset(lags[best_idx], sr),
              lags_sec |-> [i \in 1..Len(lags) |-> lags[i] * Period(sr)],
              corr |-> corr,
              energy_a |-> energy(a0), energy_b |-> energy(b0),
              eps |-> denominator_eps(Len(a), Len(b))]

\* score >= permille / 1000 for a score c / (sqrt(x) + eps), decided in the
\* integers: with L = 1000*c - permille*eps, L >= permille * sqrt(x).
ScoreAtLeast(c, x, eps, permille) ==
    LET L == 1000 * c - permille * eps
        q == L \div permille
        m == L % permille
        d == x - q * q
    IN  /\ L >= 0
        /\ \/ d <= 0
           \/ d <= 2 * q /\ 2 * q * m + ((m * m) \div permille) >= permille * d

\* Stand-in for np.mean(librosa.feature.mfcc(y=seg, ...), axis=1): a short
\* vector of non-negative integers that depends on the samples of the
\* segment only: how many are non-zero and how many differ from the next.
mfcc_mean(seg) ==
    <<Cardinality({i \in 1..Len(seg) : seg[i] # 0}),
      Cardinality({i \in 1..(Len(seg) - 1) : seg[i] # seg[i + 1]})>>

\* What the feature extraction does with a segment of no samples depends on
\* the installed library: it raises while padding the empty array, or it
\* pads with zeros and returns the features of silence.
EmptyOutcomes == {"raises", "silence"}

mfcc_raises(seg, on_empty) == seg = <<>> /\ on_empty = "raises"

Dot(v, w) == SumSeq([i \in 1..Len(v) |-> v[i] * w[i]])

\* dot(v1, v2) / (|v1| * |v2| + 1e-12) >= min_sim, min_sim in hundredths.
\* The 1e-12 makes the comparison strict for a positive threshold.
sim_at_least(v1, v2, min_sim) ==
    IF min_sim <= 0 THEN TRUE
    ELSE (100 * Dot(v1, v2)) * (100 * Dot(v1, v2))
            > min_sim * min_sim * Dot(v1, v1) * Dot(v2, v2)

\* A result of the content search: the anchor time when found, the starts
\* of the windows it scored, in the order it scored them, and the exception
\* it ended with, if any.
NoAnchor == [found |-> FALSE, time |-> 0, visited |-> <<>>, raised |-> ""]

template_fits_always(a_len, tmpl_len) == TRUE

template_fits(a_len, tmpl_len) == ~(a_len < tmpl_len)

hop_samples(hop_sec, sr) == Max(1, SamplesIn(hop_sec, sr))

RECURSIVE scan_windows_last_match(_, _, _, _, _, _, _, _, _)
scan_windows_last_match(v1, b_sig, tmpl_len, start, last_start, hop, min_sim, on_empty, visited) ==
    IF start > last_start THEN [found |-> FALSE, start |-> 0, visited |-> visited, raised |-> ""]
    ELSE LET seg == PySlice(b_sig, start, start + tmpl_len)
             rest == scan_windows_last_match(v1, b_sig, tmpl_len, start + hop, last_start,
                                             hop, min_sim, on_empty, Append(visited, start))
         IN  IF mfcc_raises(seg, on_empty)
             THEN [found |-> FALSE, start |-> 0, visited |-> visited, raised |-> "ValueError"]
             ELSE IF sim_at_least(v1, mfcc_mean(seg), min_sim) /\ ~rest.found
                  THEN [found |-> TRUE, start |-> start,
                        visited |-> Append(visited, start), raised |-> ""]
                  ELSE rest

\* The loop over the window starts 0, hop, 2 * hop, ... up to last_start.
RECURSIVE scan_windows(_, _, _, _, _, _, _, _, _)
scan_windows(v1, b_sig, tmpl_len, start, last_start, hop, min_sim, on_empty, visited) ==
    IF start > last_start THEN [found |-> FALSE, start |-> 0, visited |-> visited, raised |-> ""]
    ELSE LET seg == PySlice(b_sig, start, start + tmpl_len)
         IN  IF mfcc_raises(seg, on_empty)
             THEN [found |-> FALSE, start |-> 0, visited |-> visited, raised |-> "ValueError"]
             ELSE IF sim_at_least(v1, mfcc_mean(seg), min_sim)
                  THEN [found |-> TRUE, start |-> start,
                        visited |-> Append(visited, start), raised |-> ""]
                  ELSE scan_windows(v1, b_sig, tmpl_len, start + hop, last_start, hop,
                                    min_sim, on_empty, Append(visited, start))

find_content_anchor(a_sig, b_sig, sr, template_sec, hop_sec, min_sim, on_empty) ==
    LET tmpl_len == SamplesIn(template_sec, sr)
    IN  IF ~template_fits(Len(a_sig), tmpl_len) THEN NoAnchor
        ELSE LET tmpl == PySlice(a_sig, 0, tmpl_len)
                 hop == hop_samples(hop_sec, sr)
                 last_start == Max(0, Len(b_sig) - tmpl_len)
                 hit == scan_windows(mfcc_mean(tmpl), b_sig, tmpl_len, 0, last_start,
                                     hop, min_sim, on_empty, <<>>)
             IN  IF mfcc_raises(tmpl, on_empty)
                 THEN [NoAnchor EXCEPT !.raised = "ValueError"]
                 ELSE [found |-> hit.found,
                       time |-> IF hit.found THEN hit.start * Period(sr) ELSE 0,
                       visited |-> hit.visited, raised |-> hit.raised]

----------------------------------------------------------------------------
(* One alignment run: the analysis window, the anchor, the command and its
   application, as main and run_alignment_job go through them. *)

NoArgs == [a_raw |-> <<>>, b_raw |-> <<>>, sr |-> 0, mode |-> "", anchor_mode |-> "",
           max_search |-> 0, ref_start_sec |-> 0, search_start_sec |-> 0,
           threshold_db |-> 0, analysis_sec |-> 0, template_sec |-> 0, hop_sec |-> 0,
           min_sim |-> 0, prefer_trim |-> FALSE, apply |-> FALSE]

NoCurve == [offset_sec |-> 0, lags_sec |-> <<>>, corr |-> <<>>,
            energy_a |-> 0, energy_b |-> 0, eps |-> 0]

NotAnchored == [offset_sec |-> 0, best_b |-> NoAnchor, curve |-> NoCurve, raised |-> ""]

NotApplied == [applied |-> FALSE, rc |-> 0, ticks |-> 0]

\* needed_b_len with the pad counted on one side only.
needed_b_len_one_sided(a_len, pad) == a_len + pad

needed_b_len(a_len, pad) == a_len + 2 * pad

\* The analysis copies: start offsets, gate, reference cap, target window.
analysis_window(p) ==
    LET a1 == IF p.ref_start_sec > 0
              THEN PySlice(p.a_raw, SamplesIn(p.ref_start_sec, p.sr), Len(p.a_raw))
              ELSE p.a_raw
        b1 == IF p.search_start_sec > 0
              THEN PySlice(p.b_raw, SamplesIn(p.search_start_sec, p.sr), Len(p.b_raw))
              ELSE p.b_raw
        a2 == apply_gate_db(a1, p.threshold_db)
        b2 == apply_gate_db(b1, p.threshold_db)
        max_ref_samples == SamplesIn(p.analysis_sec, p.sr)
        a3 == IF p.analysis_sec > 0 /\ Len(a2) > max_ref_samples
              THEN PySlice(a2, 0, max_ref_samples) ELSE a2
        pad == IF p.max_search > 0 THEN SamplesIn(p.max_search, p.sr)
               ELSE IF Len(a3) > 0 /\ Len(b2) > 0 THEN Min(Len(a3), Len(b2)) - 1 ELSE 0
        needed == needed_b_len(Len(a3), pad)
        b3 == IF Len(b2) > needed THEN PySlice(b2, 0, needed) ELSE b2
    IN  [a_an |-> a3, b_an |-> b3]

\* The xcorr offset as the caller takes it: the estimate plus the difference
\* of the start offsets.
xcorr_anchor_unadjusted(p, a_sig, b_sig) ==
    LET est == estimate_offset_seconds(a_sig, b_sig, p.sr, p.max_search)
    IN  [offset_sec |-> est.offset_sec, best_b |-> NoAnchor, curve |-> est, raised |-> ""]

xcorr_anchor(p, a_sig, b_sig) ==
    LET est == estimate_offset_seconds(a_sig, b_sig, p.sr, p.max_search)
    IN  [offset_sec |-> est.offset_sec + (p.ref_start_sec - p.search_start_sec),
         best_b |-> NoAnchor, curve |-> est, raised |-> ""]

content_offset(ref_start_sec, best_b, search_start_sec) ==
    (0 + ref_start_sec) - (best_b + search_start_sec)

\* The anchor of the run.  An exception of the content search is not caught:
\* it ends the run.
find_anchor(p, a_sig, b_sig, on_empty) ==
    IF p.anchor_mode = "xcorr" THEN xcorr_anchor(p, a_sig, b_sig)
    ELSE LET best_b == find_content_anchor(a_sig, b_sig, p.sr, p.template_sec,
                                           p.hop_sec, p.min_sim, on_empty)
         IN  IF best_b.raised # ""
             THEN [NotAnchored EXCEPT !.best_b = best_b, !.raised = best_b.raised]
             ELSE IF ~best_b.found
                  THEN [xcorr_anchor(p, a_sig, b_sig) EXCEPT !.best_b = best_b]
                  ELSE [offset_sec |-> content_offset(p.ref_start_sec, best_b.time,
                                                      p.search_start_sec),
                        best_b |-> best_b,
                        curve |-> [NoCurve EXCEPT !.lags_sec = <<0, TicksPerSec>>,
                                                  !.corr = <<1, 1>>,
                                                  !.energy_a = 1, !.energy_b = 1],
                        raised |-> ""]

\* The time an -ss argument reads as, in ticks.
SsTicks(t) ==
    (t[1] * 1000000 + t[2] * 100000 + t[3] * 10000 + t[4] * 1000
     + t[5] * 100 + t[6] * 10 + t[7]) * TicksPerUs

\* What the command does to the timeline of the file it reads: -ss drops
\* that much leading time, adelay prepends that much silence.
timeline_shift(c) ==
    IF IsTrim(c) THEN -SsTicks(c.ss)
    ELSE IF IsPad(c) THEN c.adelay[1] * TicksPerMs
    ELSE 0

BuildWindow ==
    /\ pc = "window"
    /\ a_an' = analysis_window(args).a_an
    /\ b_an' = analysis_window(args).b_an
    /\ pc' = "anchor"
    /\ UNCHANGED <<cmdVars, svcVars, purge, args, anchor, cmd, shift>>

FindAnchor ==
    /\ pc = "anchor"
    /\ \E on_empty \in EmptyOutcomes : anchor' = find_anchor(args, a_an, b_an, on_empty)
    /\ pc' = IF anchor'.raised # "" THEN "failed" ELSE "command"
    /\ UNCHANGED <<cmdVars, svcVars, purge, args, a_an, b_an, cmd, shift>>

BuildCommand ==
    /\ pc = "command"
    /\ cmd' = build_align_command("inhouse.wav", "external.wav", args.sr, args.mode,
                                  anchor.offset_sec, args.prefer_trim, "None")
    /\ pc' = IF cmd'.raised = "" /\ args.apply THEN "apply" ELSE "done"
    /\ UNCHANGED <<cmdVars, svcVars, purge, args, a_an, b_an, anchor, shift>>

ApplyCommand ==
    /\ pc = "apply"
    /\ \E rc \in {0, 1} :
        shift' = [applied |-> TRUE, rc |-> rc,
                  ticks |-> IF rc = 0 THEN timeline_shift(cmd.value) ELSE 0]
    /\ pc' = "done"
    /\ UNCHANGED <<cmdVars, svcVars, purge, args, a_an, b_an, anchor, cmd>>

----------------------------------------------------------------------------
(* purge_jobs.py: the retention script over jobs/, uploads/ and results/.
   Dates are whole days. *)

JOB_RETENTION_DAYS == 90
RAW_AUDIO_ONLY_DAYS == 30

\* parse_iso: None for a missing or empty value and for one that does not
\* parse.
parse_iso(ts) == IF ts.kind \in {"naive", "aware"} THEN ts ELSE NoStamp

IsNone(ts) == ts.kind = "absent"

\* x < cutoff for datetimes, the cutoff carrying a UTC offset: comparing a
\* datetime without an offset against it raises TypeError.
CompareRaises(x, cutoff) == x.kind = "naive"

Before(x, cutoff) == x.day < cutoff

\* bool(job.get(key, default)) of an optional boolean key.
FlagOr(value, default) == IF value = "absent" THEN default ELSE value = "true"

Under(files, top, job_id) ==
    {e \in files : Len(e.path) >= 2 /\ e.path[1] = top /\ e.path[2] = job_id}

is_dir(files, top, job_id) == Dir(<<top, job_id>>) \in files

deletes_always(dry_run) == TRUE

deletes(dry_run) == ~dry_run

\* for p in root.rglob("*"): if p.is_file(): p.unlink(); then root.rmdir(),
\* which raises OSError when the directory still has entries.
remove_tree(files, top, job_id) ==
    LET unlinked == files \ {e \in Under(files, top, job_id) : e.kind = "file"}
        left == Under(unlinked, top, job_id) \ {Dir(<<top, job_id>>)}
    IN  IF left # {}
        THEN [fs |-> unlinked, raised |-> "OSError"]
        ELSE [fs |-> unlinked \ {Dir(<<top, job_id>>)}, raised |-> ""]

NoCounts == [jobs |-> 0, uploads |-> 0, results |-> 0, raw |-> 0]

purge_job(records, files, job_id, dry_run) ==
    LET kept == [jobs |-> records, fs |-> files, raised |-> "", counts |-> NoCounts]
    IN  IF ~deletes(dry_run) THEN kept
        ELSE LET had_json == records[job_id].exists
                 records1 == IF had_json THEN [records EXCEPT ![job_id] = NoFile]
                             ELSE records
                 had_uploads == is_dir(files, "uploads", job_id)
                 up == IF had_uploads THEN remove_tree(files, "uploads", job_id)
                       ELSE [fs |-> files, raised |-> ""]
                 had_results == is_dir(up.fs, "results", job_id)
                 res == IF had_results THEN remove_tree(up.fs, "results", job_id)
                        ELSE up
             IN  IF up.raised # ""
                 THEN [jobs |-> records1, fs |-> up.fs, raised |-> up.raised,
                       counts |-> NoCounts]
                 ELSE [jobs |-> records1, fs |-> res.fs, raised |-> res.raised,
                       counts |-> IF res.raised # "" THEN NoCounts
                                  ELSE [jobs |-> IF had_json THEN 1 ELSE 0,
                                        uploads |-> IF had_uploads THEN 1 ELSE 0,
                                        results |-> IF had_results THEN 1 ELSE 0,
                                        raw |-> 0]]

purge_raw_audio(files, job_id, dry_run) ==
    IF ~is_dir(files, "uploads", job_id) THEN [fs |-> files, raised |-> "", removed |-> 0]
    ELSE IF ~deletes(dry_run) THEN [fs |-> files, raised |-> "", removed |-> 1]
    ELSE LET up == remove_tree(files, "uploads", job_id)
         IN  [fs |-> up.fs, raised |-> up.raised,
              removed |-> IF up.raised = "" THEN 1 ELSE 0]

whole_job_due(created_at, job_cutoff) == ~IsNone(created_at) /\ Before(created_at, job_cutoff)

raw_deadline_of(created_at, expires_at) ==
    IF ~IsNone(expires_at) THEN expires_at
    ELSE IF ~IsNone(created_at)
         THEN [created_at EXCEPT !.day = created_at.day + RAW_AUDIO_ONLY_DAYS]
         ELSE NoStamp

\* One pass of the loop of main over a listed job file.
purge_one(records, files, job_id, now, dry_run) ==
    LET job == records[job_id]
        kept == [jobs |-> records, fs |-> files, raised |-> "", counts |-> NoCounts]
        job_cutoff == now - JOB_RETENTION_DAYS
        raw_cutoff == now - RAW_AUDIO_ONLY_DAYS
        created_at == parse_iso(job.created_at)
        expires_at == parse_iso(job.expires_at)
        has_raw_audio == FlagOr(job.has_raw_audio, TRUE)
        pinned == FlagOr(job.pinned, FALSE)
        raw_deadline == raw_deadline_of(created_at, expires_at)
    IN  IF ~job.exists \/ ~job.readable \/ job.keys = {} THEN kept
        ELSE IF pinned THEN kept
        ELSE IF ~IsNone(created_at) /\ CompareRaises(created_at, job_cutoff)
        THEN [kept EXCEPT !.raised = "TypeError"]
        ELSE IF whole_job_due(created_at, job_cutoff)
        THEN purge_job(records, files, job_id, dry_run)
        ELSE IF ~has_raw_audio \/ IsNone(raw_deadline) THEN kept
        ELSE IF CompareRaises(raw_deadline, raw_cutoff)
        THEN [kept EXCEPT !.raised = "TypeError"]
        ELSE IF ~Before(raw_deadline, raw_cutoff) THEN kept
        ELSE LET raw == purge_raw_audio(files, job_id, dry_run)
             IN  [jobs |-> records, fs |-> raw.fs, raised |-> raw.raised,
                  counts |-> [NoCounts EXCEPT !.raw = raw.removed]]

Today == 0

NotPurging ==
    [pc |-> "idle", dry_run |-> FALSE, now |-> 0, todo |-> {}, raised |-> "",
     totals |-> NoCounts, jobs_before |-> <<>>, fs_before |-> {}]

AddCounts(x, y) ==
    [jobs |-> x.jobs + y.jobs, uploads |-> x.uploads + y.uploads,
     results |-> x.results + y.results, raw |-> x.raw + y.raw]

\* The run as it enters the loop on the day now.
purge_started(dry_run, now) ==
    [pc |-> "running", dry_run |-> dry_run, now |-> now,
     todo |-> {j \in JobIds : jobs[j].exists}, raised |-> "",
     totals |-> NoCounts, jobs_before |-> jobs, fs_before |-> fs]

\* main up to the loop: the flag, the clock, the listing of jobs/*.json.
PurgeStart ==
    /\ purge.pc = "idle"
    /\ \E dry_run \in BOOLEAN : purge' = purge_started(dry_run, Today)
    /\ UNCHANGED <<cmdVars, svcVars, runVars>>

\* The days, counted from the day the jobs were posted, on which the
\* script is run: the same day, past the raw-audio retention, past the job
\* retention.
RunDays == {0, RAW_AUDIO_ONLY_DAYS + 1, JOB_RETENTION_DAYS + 1}

\* A run of the script on one of the days, the first or one after an
\* earlier run has ended; the days do not go back.
PurgeOnDay ==
    /\ purge.pc \in {"idle", "finished", "crashed"}
    /\ \E dry_run \in BOOLEAN, day \in RunDays :
        /\ day >= purge.now
        /\ purge' = purge_started(dry_run, day)
    /\ UNCHANGED <<cmdVars, svcVars, runVars>>

\* One iteration of the loop, over the listing in any order; an exception
\* ends the script.
PurgeVisit ==
    /\ purge.pc = "running"
    /\ \E job_id \in purge.todo :
        LET out == purge_one(jobs, fs, job_id, purge.now, purge.dry_run)
        IN  /\ jobs' = out.jobs
            /\ fs' = out.fs
            /\ purge' = [purge EXCEPT !.todo = @ \ {job_id},
                                      !.raised = out.raised,
                                      !.totals = AddCounts(@, out.counts),
                                      !.pc = IF out.raised # "" THEN "crashed" ELSE @]
    /\ UNCHANGED <<cmdVars, runVars, issued, task, req, resp>>

\* The summary after the loop.
PurgeEnd ==
    /\ purge.pc = "running"
    /\ purge.todo = {}
    /\ purge' = [purge EXCEPT !.pc = "finished"]
    /\ UNCHANGED <<cmdVars, svcVars, runVars>>

----------------------------------------------------------------------------
(* Specifications *)

ServiceIdle ==
    /\ issued = {}
    /\ jobs = [j \in JobIds |-> NoFile]
    /\ fs = {}
    /\ task = [j \in JobIds |-> "none"]
    /\ req = [j \in JobIds |-> NoRequest]
    /\ resp = NoResponse

RunIdle ==
    /\ args = NoArgs
    /\ pc = "idle"
    /\ a_an = <<>>
    /\ b_an = <<>>
    /\ anchor = NotAnchored
    /\ cmd = NotCalled
    /\ shift = NotApplied

\* Direct calls of the command builder over the offsets, modes and flags.
InitCmd ==
    /\ call \in CallInputs
    /\ ret = NotCalled
    /\ ServiceIdle
    /\ purge = NotPurging
    /\ RunIdle

NextCmd == CallBuild

SpecCmd == InitCmd /\ [][NextCmd]_vars

\* A bad direction flag, at the library call and at the service.
InitConfig ==
    /\ call \in {c \in CallInputs : c.sr = 8000 /\ ~c.prefer_trim /\ c.out_audio = "None"}
    /\ ret = NotCalled
    /\ ServiceIdle
    /\ purge = NotPurging
    /\ RunIdle

NextConfig == CallBuild \/ PostJob

SpecConfig == InitConfig /\ [][NextConfig]_vars

\* The job service: requests interleaved with the background tasks.
Init ==
    /\ call = CHOOSE c \in CallInputs : TRUE
    /\ ret = NotCalled
    /\ ServiceIdle
    /\ purge = NotPurging
    /\ RunIdle

Next == PostJob \/ StartTask \/ FinishTask \/ GetJob

Spec == Init /\ [][Next]_vars

\* The job service polled while it runs jobs that only report: the posts
\* leave apply unset.
PostReportOnly ==
    \E job_id \in JobIds, r \in {q \in Requests : ~q.apply} : create_alignment_job(job_id, r)

NextPolling == PostReportOnly \/ StartTask \/ FinishTask \/ GetJob

SpecPolling == Init /\ [][NextPolling]_vars

\* The service on day 0 and the retention script on later days: jobs are
\* posted and run before the script is first run.
PostBeforePurge == purge = NotPurging /\ PostReportOnly

StartBeforePurge == purge = NotPurging /\ StartTask

FinishBeforePurge == purge = NotPurging /\ FinishTask

NextRetention ==
    \/ PostBeforePurge \/ StartBeforePurge \/ FinishBeforePurge
    \/ PurgeOnDay \/ PurgeVisit \/ PurgeEnd

SpecRetention == Init /\ [][NextRetention]_vars

\* The job service with nobody polling: the posts and the background tasks.
NextTasks == PostJob \/ StartTask \/ FinishTask

SpecTasks == Init /\ [][NextTasks]_vars

\* Runs of the whole pipeline over short signals: the target is the
\* reference itself, the reference behind leading silence (whole or cut
\* short by a sample), or the reference with its head removed.
MaxLen == 3
Amp == 20
MaxDelay == 2
MaxSearchSamples == 3
TemplateSamples == 2
MinSim == 78

Levels == {-Amp, 0, Amp \div 2, Amp}
Signals == UNION {[1..n -> Levels] : n \in 1..MaxLen}
Zeros(k) == [i \in 1..k |-> 0]
Delayed(a, k) == Zeros(k) \o a
Advanced(a, k) == SubSeq(a, k + 1, Len(a))
Truncated(y, t) == SubSeq(y, 1, Len(y) - t)

TargetsOf(a) ==
    {a} \cup {Delayed(a, k) : k \in 1..MaxDelay}
        \cup {Truncated(Delayed(a, k), 1) : k \in 1..MaxDelay}
        \cup {Advanced(a, k) : k \in 1..Min(MaxDelay, Len(a) - 1)}

SampleRates == {1000, 8000}

AlignArgs(a, b, sr, m, am, s) ==
    [a_raw |-> a, b_raw |-> b, sr |-> sr, mode |-> m, anchor_mode |-> am,
     max_search |-> s * Period(sr), ref_start_sec |-> 0, search_start_sec |-> 0,
     threshold_db |-> 0, analysis_sec |-> 0,
     template_sec |-> TemplateSamples * Period(sr), hop_sec |-> Period(sr),
     min_sim |-> MinSim, prefer_trim |-> FALSE, apply |-> TRUE]

InitAlign ==
    /\ call = CHOOSE c \in CallInputs : TRUE
    /\ ret = NotCalled
    /\ ServiceIdle
    /\ purge = NotPurging
    /\ \E a \in Signals :
        \E b \in TargetsOf(a), sr \in SampleRates, m \in Modes,
           am \in AnchorModes, s \in 0..MaxSearchSamples :
            args = AlignArgs(a, b, sr, m, am, s)
    /\ pc = "window"
    /\ a_an = <<>>
    /\ b_an = <<>>
    /\ anchor = NotAnchored
    /\ cmd = NotCalled
    /\ shift = NotApplied

NextAlign == BuildWindow \/ FindAnchor \/ BuildCommand \/ ApplyCommand

SpecAlign == InitAlign /\ [][NextAlign]_vars

\* Runs at the edges of the parameters: a start offset into either signal,
\* up to its end and past it; a search window that is absent or negative;
\* and, for the content search, hops and thresholds down to zero and below,
\* with and without applying the command.
MaxStart == 3

EdgeSignals == UNION {[1..n -> {-Amp, 0, Amp}] : n \in 1..MaxLen}

EdgeTargets(a) == {a} \cup {Delayed(a, k) : k \in 1..MaxDelay}

StartPairs == {<<x, 0>> : x \in 0..MaxStart} \cup {<<0, x>> : x \in 0..MaxStart}

EdgeArgs(a, b, am, s, st, hop, ms, ap) ==
    [a_raw |-> a, b_raw |-> b, sr |-> 1000, mode |-> "external_to_inhouse",
     anchor_mode |-> am, max_search |-> s * Period(1000),
     ref_start_sec |-> st[1] * Period(1000), search_start_sec |-> st[2] * Period(1000),
     threshold_db |-> 0, analysis_sec |-> 0,
     template_sec |-> TemplateSamples * Period(1000), hop_sec |-> hop * Period(1000),
     min_sim |-> ms, prefer_trim |-> FALSE, apply |-> ap]

InitEdge ==
    /\ call = CHOOSE c \in CallInputs : TRUE
    /\ ret = NotCalled
    /\ ServiceIdle
    /\ purge = NotPurging
    /\ \E a \in EdgeSignals :
        \E b \in EdgeTargets(a) :
            \/ \E am \in AnchorModes, s \in -1..1, st \in StartPairs :
                    args = EdgeArgs(a, b, am, s, st, 1, MinSim, TRUE)
            \/ \E s \in -1..0, hop \in -1..2, ms \in {0, MinSim, 100}, ap \in BOOLEAN :
                    args = EdgeArgs(a, b, "content", s, <<0, 0>>, hop, ms, ap)
    /\ pc = "window"
    /\ a_an = <<>>
    /\ b_an = <<>>
    /\ anchor = NotAnchored
    /\ cmd = NotCalled
    /\ shift = NotApplied

SpecEdge == InitEdge /\ [][NextAlign]_vars

\* Runs of the retention script over a store of job records and their
\* directories.  The first job draws its record and its directories freely;
\* the others are absent, old or recent.  A record's dates are days from
\* the day of the run; a job without a record has no directories.
Stamp(kind, day) == [kind |-> kind, day |-> day]

CreatedStamps ==
    {NoStamp, Stamp("malformed", 0), Stamp("naive", 0 - (JOB_RETENTION_DAYS + 1))}
    \cup {Stamp("aware", d) : d \in {0 - (JOB_RETENTION_DAYS + 1), 0 - JOB_RETENTION_DAYS,
                                      0 - (RAW_AUDIO_ONLY_DAYS + 1), 0 - RAW_AUDIO_ONLY_DAYS,
                                      0 - 10}}

ExpiryStamps ==
    {NoStamp} \cup {Stamp("aware", d) : d \in {0 - (RAW_AUDIO_ONLY_DAYS + 1), 0 - 1, 1}}

OptionalFlags == {"absent", "true", "false"}

UploadLayouts == {"none", "service", "flat"}

ResultLayouts == {"none", "plots"}

StoredRecord(created_at, expires_at, has_raw_audio, pinned, readable) ==
    [NoFile EXCEPT !.exists = TRUE, !.readable = readable,
                   !.keys = {"status"}
                            \cup (IF created_at.kind # "absent" THEN {"created_at"} ELSE {})
                            \cup (IF expires_at.kind # "absent" THEN {"expires_at"} ELSE {})
                            \cup (IF has_raw_audio # "absent" THEN {"has_raw_audio"} ELSE {})
                            \cup (IF pinned # "absent" THEN {"pinned"} ELSE {}),
                   !.status = "completed", !.created_at = created_at,
                   !.expires_at = expires_at, !.has_raw_audio = has_raw_audio,
                   !.pinned = pinned]

StoredUploads(job_id, layout) ==
    IF layout = "none" THEN {}
    ELSE IF layout = "flat"
    THEN {Dir(<<"uploads", job_id>>), File(<<"uploads", job_id, "a.wav">>)}
    ELSE {Dir(<<"uploads", job_id>>),
          Dir(<<"uploads", job_id, "inhouse">>), Dir(<<"uploads", job_id, "external">>),
          File(UploadPath(job_id, "inhouse", "a.wav")),
          File(UploadPath(job_id, "external", "b.wav"))}

StoredResults(job_id, layout) ==
    IF layout = "none" THEN {}
    ELSE {Dir(<<"results", job_id>>),
          File(ResultPath(job_id, "waveform_overlay.png")),
          File(ResultPath(job_id, "similarity_curve.png"))}

OtherJobs == {"absent", "old", "recent"}

OtherRecord(kind) ==
    IF kind = "absent" THEN NoFile
    ELSE StoredRecord(Stamp("aware", IF kind = "old" THEN 0 - (JOB_RETENTION_DAYS + 1)
                                     ELSE 0 - 10),
                      NoStamp, "absent", "absent", TRUE)

OtherFiles(job_id, kind) ==
    IF kind = "absent" THEN {}
    ELSE StoredUploads(job_id, "service") \cup StoredResults(job_id, "plots")

InitPurge ==
    /\ call = CHOOSE c \in CallInputs : TRUE
    /\ ret = NotCalled
    /\ RunIdle
    /\ purge = NotPurging
    /\ issued = {}
    /\ task = [j \in JobIds |-> "none"]
    /\ req = [j \in JobIds |-> NoRequest]
    /\ resp = NoResponse
    /\ \E created_at \in CreatedStamps, expires_at \in ExpiryStamps,
          has_raw_audio \in OptionalFlags, pinned \in {"absent", "true"},
          readable \in BOOLEAN, up \in UploadLayouts, res \in ResultLayouts,
          others \in [JobIds \ {1} -> OtherJobs] :
        /\ jobs = [j \in JobIds |->
                     IF j = 1
                     THEN StoredRecord(created_at, expires_at, has_raw_audio, pinned, readable)
                     ELSE OtherRecord(others[j])]
        /\ fs = StoredUploads(1, up) \cup StoredResults(1, res)
                \cup UNION {OtherFiles(j, others[j]) : j \in JobIds \ {1}}

\* Runs with every stage of the window builder in play: start offsets, a
\* gate that silences the half-level samples, a cap on the reference and a
\* search bound that is negative, zero or positive.
WindowSignals == UNION {[1..n -> {0, Amp \div 2, Amp}] : n \in 1..MaxLen}

WindowStartPairs == {<<0, 0>>, <<1, 0>>, <<0, 1>>, <<0, MaxStart>>}

WindowArgs(a, b, st, gate, cap, s) ==
    [EdgeArgs(a, b, "xcorr", s, st, 1, MinSim, TRUE)
        EXCEPT !.threshold_db = gate, !.analysis_sec = cap * Period(1000)]

InitWindow ==
    /\ call = CHOOSE c \in CallInputs : TRUE
    /\ ret = NotCalled
    /\ ServiceIdle
    /\ purge = NotPurging
    /\ \E a \in WindowSignals :
        \E b \in EdgeTargets(a), st \in WindowStartPairs, gate \in {0, Amp},
           cap \in -1..2, s \in -1..1 :
            args = WindowArgs(a, b, st, gate, cap, s)
    /\ pc = "window"
    /\ a_an = <<>>
    /\ b_an = <<>>
    /\ anchor = NotAnchored
    /\ cmd = NotCalled
    /\ shift = NotApplied

SpecWindow == InitWindow /\ [][NextAlign]_vars

NextPurge == PurgeStart \/ PurgeVisit \/ PurgeEnd

SpecPurge == InitPurge /\ [][NextPurge]_vars


----------------------------------------------------------------------------
(* Properties of the shift command builder *)

Called == ret # NotCalled

\* The effective offset of the call, from the claim's words: the offset for
\* external_to_inhouse, its negation for inhouse_to_external.
CallEffective ==
    IF call.mode = "external_to_inhouse" THEN call.offset_sec ELSE -call.offset_sec

KindsOf(c) ==
    {k \in {"trim", "pad", "passthrough"} :
        \/ k = "trim" /\ IsTrim(c)
        \/ k = "pad" /\ IsPad(c)
        \/ k = "passthrough" /\ IsPassthrough(c)}

\* C4: for every valid mode and every offset, build_align_command emits
\* exactly one of trim, pad, passthrough, decided by the effective offset e
\* alone: trim iff e < -1e-6, pad iff e > 1e-6, passthrough iff |e| <= 1e-6;
\* and every command carries -ac 1, -ar <sr> and -c:a pcm_s16le.
C4_OneKindByEffectiveOffset ==
    (Called /\ call.mode \in Modes) =>
        LET c == ret.value
            e == CallEffective
        IN  /\ ret.raised = ""
            /\ Cardinality(KindsOf(c)) = 1
            /\ IsTrim(c) <=> e < -DeadZone
            /\ IsPad(c) <=> e > DeadZone
            /\ IsPassthrough(c) <=> Abs(e) <= DeadZone
            /\ c.ac = 1 /\ c.ar = call.sr /\ c.codec = "pcm_s16le"

\* A pad emitted for inhouse_to_external from a negative offset.
C4_Witness ==
    /\ Called
    /\ call.mode = "inhouse_to_external"
    /\ call.offset_sec < -DeadZone
    /\ IsPad(ret.value)

OppositeKinds(o, c, d) ==
    \/ IsTrim(c) /\ IsPad(d)
    \/ IsPad(c) /\ IsTrim(d)
    \/ Abs(o) <= DeadZone /\ IsPassthrough(c) /\ IsPassthrough(d)

\* C5 as stated: the instruction for (o, external_to_inhouse) and the one
\* for (-o, inhouse_to_external) select opposite kinds out of {trim, pad},
\* or both are passthrough when |o| <= 1e-6.
C5_OppositeForNegatedOffset ==
    (Called /\ call.mode = "external_to_inhouse") =>
        OppositeKinds(call.offset_sec, ret.value,
            BuildOf([call EXCEPT !.mode = "inhouse_to_external",
                                 !.offset_sec = -call.offset_sec]).value)

\* C5 amended: the instruction for (o, external_to_inhouse) and the one for
\* the same offset o under inhouse_to_external select opposite kinds out of
\* {trim, pad}, or both are passthrough when |o| <= 1e-6.
C5_OppositeForSameOffset ==
    (Called /\ call.mode = "external_to_inhouse") =>
        OppositeKinds(call.offset_sec, ret.value,
            BuildOf([call EXCEPT !.mode = "inhouse_to_external"]).value)

\* A trim emitted for external_to_inhouse.
C5_Witness ==
    /\ Called
    /\ call.mode = "external_to_inhouse"
    /\ IsTrim(ret.value)

\* The microseconds a rendered time denotes.
RenderedMicros(t) ==
    t[1] * 1000000 + t[2] * 100000 + t[3] * 10000 + t[4] * 1000
    + t[5] * 100 + t[6] * 10 + t[7]

\* C8: an emitted trim carries -ss with |effective offset| in seconds to
\* exactly six decimal places (the nearest microsecond, never negative); an
\* emitted pad carries adelay with exactly round(effective offset * 1000)
\* milliseconds (the nearest integer, ties to even, never negative).
C8_TrimAndPadAmounts ==
    (Called /\ call.mode \in Modes) =>
        LET c == ret.value
            e == CallEffective
        IN  /\ IsTrim(c) =>
                /\ Len(c.ss) = 7
                /\ \A i \in 2..7 : c.ss[i] \in 0..9
                /\ c.ss[1] >= 0
                /\ 2 * Abs(RenderedMicros(c.ss) * TicksPerUs - Abs(e)) <= TicksPerUs
            /\ IsPad(c) =>
                LET m == c.adelay[1]
                IN  /\ c.adelay = <<m, m>>
                    /\ m >= 0
                    /\ 2 * Abs(m * TicksPerMs - e) <= TicksPerMs
                    /\ (2 * Abs(m * TicksPerMs - e) = TicksPerMs => m % 2 = 0)

\* A trim by an amount that is no whole number of microseconds.
C8_Witness ==
    /\ Called
    /\ IsTrim(ret.value)
    /\ call.offset_sec % TicksPerUs # 0

\* C9: build_align_command returns the identical command with prefer_trim
\* true and with prefer_trim false, all other arguments being equal.
C9_PreferTrimIgnored ==
    Called => ret = BuildOf([call EXCEPT !.prefer_trim = ~call.prefer_trim])

\* A pad emitted although trimming is preferred.
C9_Witness ==
    /\ Called
    /\ call.prefer_trim
    /\ IsPad(ret.value)

\* C10: build_align_command called with a mode other than the two
\* directions raises ValueError and returns no command, whatever the
\* offset; a POST with such a mode is refused and writes no job record, no
\* file and schedules no task.
C10_BadModeFailsFast ==
    [][ /\ (CallBuild /\ call.mode \notin Modes) =>
              (ret'.raised = "ValueError" /\ ret'.value = NoCommand)
        /\ \A j \in JobIds, r \in Requests :
              (create_alignment_job(j, r) /\ r.mode \notin Modes) =>
                  /\ resp'.op = "POST" /\ resp'.code >= 400
                  /\ jobs' = jobs /\ fs' = fs /\ task' = task /\ req' = req
      ]_vars

\* The call has raised and a POST has been refused.
C10_Witness ==
    /\ ret.raised = "ValueError"
    /\ call.mode \notin Modes
    /\ resp.op = "POST"
    /\ resp.code = 500
    /\ jobs[resp.job_id] = NoFile

----------------------------------------------------------------------------
(* Properties of the job service *)

StartsWithMedia(url) == Len(url) > 0 /\ url[1] = "/media"

\* C6: POST /api/v1/alignments answers 202 with the job id and status
\* queued; once the background task has finished a successful run, every
\* GET of the job answers 200 with status completed, a float offset_sec, a
\* non-empty ffmpeg_command, and inhouse_url and external_url under /media/.
C6_JobLifecycle ==
    [][ /\ \A j \in JobIds, r \in Requests :
              (create_alignment_job(j, r) /\ ValidParameters(r)) =>
                  (resp'.code = 202 /\ resp'.job_id = j /\ resp'.status = "queued")
        /\ \A j \in JobIds :
              (get_alignment_job(j) /\ task[j] = "done" /\ jobs[j].status = "completed") =>
                  /\ resp'.code = 200
                  /\ resp'.status = "completed"
                  /\ resp'.has_offset
                  /\ resp'.ffmpeg_command # NoCommand
                  /\ StartsWithMedia(resp'.inhouse_url)
                  /\ StartsWithMedia(resp'.external_url)
      ]_vars

----------------------------------------------------------------------------
(* Properties of the offset estimators and of the whole run *)

Anchored == pc \in {"command", "apply", "done"}

ByXcorr == Anchored /\ args.anchor_mode = "xcorr"

NonSilent(y) == \E i \in 1..Len(y) : y[i] # 0

NonConstant(y) == \E i, j \in 1..Len(y) : y[i] # y[j]

ZeroSum(y) == SumSeq(y) = 0

\* b is a delayed by k samples: for k > 0, k zero samples followed by a, whole
\* or cut short at the end with some of a left; for k < 0, a without its
\* first -k samples.
IsDelayedBy(b, a, k) ==
    IF k >= 0
    THEN /\ Len(b) > k
         /\ Len(b) <= Len(a) + k
         /\ b = SubSeq(Delayed(a, k), 1, Len(b))
    ELSE /\ Len(a) > -k
         /\ b = Advanced(a, -k)

SearchSamples == SamplesIn(args.max_search, args.sr)

\* C2 as stated: for every reference a and every target that is a delayed
\* by k samples (k zeros followed by a, optionally truncated; advanced for a
\* negative k), with |k| <= max_search*sr, estimate_offset_seconds returns
\* an offset within one sample period of k/sr.
C2_DelayedTargetOffset ==
    ByXcorr =>
        \A k \in (-MaxDelay..MaxDelay) \ {0} :
            (IsDelayedBy(b_an, a_an, k) /\ Abs(k) <= SearchSamples) =>
                Abs(anchor.curve.offset_sec - k * Period(args.sr)) <= Period(args.sr)

\* C2 amended: for every non-silent reference whose samples sum to zero and
\* every 0 < k <= max_search*sr, the target made of k zero samples followed
\* by the whole reference is measured at k/sr, and a target that is the
\* reference without its k leading zero samples is measured at -k/sr.
C2_ZeroSumShiftMeasured ==
    ByXcorr =>
        \A k \in 1..MaxDelay :
            k <= SearchSamples =>
                /\ (NonSilent(a_an) /\ ZeroSum(a_an) /\ b_an = Delayed(a_an, k))
                        => anchor.curve.offset_sec = k * Period(args.sr)
                /\ (NonSilent(b_an) /\ ZeroSum(b_an) /\ a_an = Delayed(b_an, k))
                        => anchor.curve.offset_sec = -k * Period(args.sr)

\* A zero-sum reference behind MaxDelay samples of silence, measured.
C2_Witness ==
    /\ ByXcorr
    /\ NonSilent(a_an) /\ ZeroSum(a_an)
    /\ b_an = Delayed(a_an, MaxDelay)
    /\ MaxDelay <= SearchSamples
    /\ anchor.curve.offset_sec = MaxDelay * Period(args.sr)

\* The largest score of the returned curve is at least 0.999.
PeakAtLeast999(curve) ==
    ScoreAtLeast(curve.corr[argmax(curve.corr)],
                 curve.energy_a * curve.energy_b, curve.eps, 999)

\* len(y) times the energy of y after mean removal, from the samples.
CentredEnergyTimesLen(y) ==
    Len(y) * SumSeq([i \in 1..Len(y) |-> y[i] * y[i]]) - SumSeq(y) * SumSeq(y)

\* C7 as stated: for all equal-length identical signals, constant and
\* all-zero ones included, the offset is within one sample period of 0 and
\* the maximum of the normalized-score curve is at least 0.999.
C7_IdenticalSignals ==
    (ByXcorr /\ a_an = b_an /\ Len(a_an) > 0) =>
        /\ Abs(anchor.curve.offset_sec) <= Period(args.sr)
        /\ PeakAtLeast999(anchor.curve)

\* C7 amended: for all identical signals that are not constant the offset
\* is 0, and the maximum score is at least 0.999 exactly when the energy of
\* the signal after mean removal is at least 999e-12.
C7_NonConstantIdentical ==
    (ByXcorr /\ a_an = b_an /\ NonConstant(a_an)) =>
        /\ anchor.curve.offset_sec = 0
        /\ PeakAtLeast999(anchor.curve)
                <=> CentredEnergyTimesLen(a_an) >= 999 * Len(a_an)

\* Identical non-constant signals loud enough for the score to pass 0.999.
C7_Witness ==
    /\ ByXcorr
    /\ a_an = b_an
    /\ NonConstant(a_an)
    /\ anchor.curve.offset_sec = 0
    /\ PeakAtLeast999(anchor.curve)

\* C1: in xcorr mode, external_to_inhouse, start offsets 0, for a target
\* that is the reference behind k zero samples (0 < k <= max_search*sr),
\* the target after the emitted trim or pad has residual lag 0 against the
\* reference, up to one sample and 1 ms.  Stated for the references the
\* estimator measures exactly: non-silent, samples summing to zero.
C1_Resynchronized ==
    (/\ pc = "done" /\ shift.applied /\ shift.rc = 0
     /\ args.anchor_mode = "xcorr"
     /\ args.mode = "external_to_inhouse"
     /\ args.ref_start_sec = 0 /\ args.search_start_sec = 0) =>
        \A k \in 1..MaxDelay :
            (/\ args.b_raw = Delayed(args.a_raw, k)
             /\ k <= SearchSamples
             /\ NonSilent(args.a_raw) /\ ZeroSum(args.a_raw)) =>
                Abs(k * Period(args.sr) + shift.ticks) <= Period(args.sr) + TicksPerMs

OppositeSigns(x, y) == (x < 0 /\ y > 0) \/ (x > 0 /\ y < 0)

HopTicks == Max(1, SamplesIn(args.hop_sec, args.sr)) * Period(args.sr)

\* C3: for a target holding the reference's first template_seconds at
\* sample offset k after silence (start offsets 0), where the content
\* anchor is found within one hop of k/sr, the offset derived from it,
\* ref_start - (best_b + search_start), has the sign of the offset the
\* xcorr estimator returns for that target and is within one hop of it.
C3_AnchorModesAgree ==
    (/\ Anchored /\ args.anchor_mode = "content" /\ anchor.best_b.found
     /\ args.ref_start_sec = 0 /\ args.search_start_sec = 0) =>
        \A k \in 1..MaxDelay :
            (/\ Len(a_an) = SamplesIn(args.template_sec, args.sr)
             /\ b_an = Delayed(a_an, k)
             /\ k <= SearchSamples
             /\ NonSilent(a_an) /\ ZeroSum(a_an)
             /\ Abs(anchor.best_b.time - k * Period(args.sr)) <= HopTicks) =>
                LET x == estimate_offset_seconds(a_an, b_an, args.sr,
                                                 args.max_search).offset_sec
                IN  /\ ~OppositeSigns(anchor.offset_sec, x)
                    /\ Abs(anchor.offset_sec - x) <= HopTicks


\* What the xcorr path yields on the arrays of the run, from the estimator
\* itself and the two start offsets.
XcorrOnSameArrays == estimate_offset_seconds(a_an, b_an, args.sr, args.max_search)

ContentSearched == pc \in {"command", "apply", "done", "failed"} /\ args.anchor_mode = "content"

\* C11: in content mode, whenever find_content_anchor reports no anchor,
\* the final offset and the similarity curve are exactly those of xcorr mode
\* on the same bounded arrays and parameters, estimate_offset_seconds(a_an,
\* b_an, sr, max_search) + (ref_start_sec - search_start_sec), and the run
\* goes on to the command: no anchor is not an error.
C11_FallbackIsXcorr ==
    (ContentSearched /\ ~anchor.best_b.found /\ anchor.best_b.raised = "") =>
        /\ pc # "failed" /\ anchor.raised = ""
        /\ anchor.curve = XcorrOnSameArrays
        /\ anchor.offset_sec = XcorrOnSameArrays.offset_sec
                                + (args.ref_start_sec - args.search_start_sec)
        /\ pc \in {"apply", "done"} => cmd.raised = ""

\* A fallback whose offset carries a start offset into the reference.
C11_Witness ==
    /\ ContentSearched /\ ~anchor.best_b.found /\ anchor.best_b.raised = ""
    /\ anchor.best_b.visited # <<>>
    /\ args.ref_start_sec > 0
    /\ anchor.offset_sec # anchor.curve.offset_sec
    /\ pc = "done"


AnchorStepDone == pc \in {"command", "apply", "done", "failed"}

\* C12: when the reference or the target analysis array is empty after
\* slicing, offset estimation in either anchor mode completes without
\* raising, the estimator's offset is exactly 0 and the similarity curve is
\* the single point of the xcorr estimator.
C12_EmptyShortCircuits ==
    (AnchorStepDone /\ (a_an = <<>> \/ b_an = <<>>)) =>
        /\ pc # "failed"
        /\ anchor.raised = ""
        /\ anchor.curve.offset_sec = 0
        /\ Len(anchor.curve.lags_sec) = 1
        /\ anchor.curve = estimate_offset_seconds(<<>>, <<>>, args.sr, args.max_search)


TemplateLength == SamplesIn(args.template_sec, args.sr)

\* C13: whenever the reference analysis array is shorter than the template
\* length int(template_sec * sr), find_content_anchor reports no anchor for
\* every target, hop and threshold: it does not raise, returns no time and
\* scores no window.
C13_ShortReferenceNoAnchor ==
    (ContentSearched /\ Len(a_an) < TemplateLength) =>
        /\ ~anchor.best_b.found
        /\ anchor.best_b.time = 0
        /\ anchor.best_b.raised = ""
        /\ anchor.best_b.visited = <<>>
        /\ pc # "failed"

\* A short reference against a target with samples and a threshold that
\* every window would reach.
C13_Witness ==
    /\ ContentSearched
    /\ Len(a_an) > 0 /\ Len(a_an) < TemplateLength
    /\ Len(b_an) > 0
    /\ args.min_sim <= 0
    /\ ~anchor.best_b.found

----------------------------------------------------------------------------
\* A record the loop of main acts on: readable, non-empty, not pinned.
Considered(job) == job.exists /\ job.readable /\ job.keys # {} /\ ~FlagOr(job.pinned, FALSE)

\* created_at is older than JOB_RETENTION_DAYS on the day of the run.
OlderThanRetention(job, now) ==
    job.created_at.kind = "aware" /\ job.created_at.day < now - JOB_RETENTION_DAYS

\* The jobs of the listing the loop has been through.
Visited == {j \in JobIds : purge.jobs_before[j].exists /\ j \notin purge.todo}

Remains(top, job_id) == Under(fs, top, job_id) # {}

PurgeUnderWay == purge.pc \in {"running", "finished", "crashed"}

\* C14: in a run that is not a dry run, the whole-job purge of a non-pinned
\* job older than JOB_RETENTION_DAYS completes without error and leaves none
\* of the job's record, uploads directory and results directory, whatever
\* the layout under uploads/<job_id>; no job is ever left with its record
\* gone and uploads or results remaining.
C14_WholeJobPurged ==
    (PurgeUnderWay /\ ~purge.dry_run) =>
        /\ \A j \in Visited :
             (Considered(purge.jobs_before[j]) /\ OlderThanRetention(purge.jobs_before[j], purge.now))
                => /\ purge.raised = ""
                   /\ ~jobs[j].exists
                   /\ ~Remains("uploads", j)
                   /\ ~Remains("results", j)
        /\ \A j \in JobIds :
             ~jobs[j].exists => ~Remains("uploads", j) /\ ~Remains("results", j)

\* The record is left to the raw-audio rule: considered, created_at absent,
\* unparsable or within JOB_RETENTION_DAYS, has_raw_audio true, and dates
\* that carry a UTC offset.
RawOnlyCandidate(job, now) ==
    /\ Considered(job)
    /\ job.created_at.kind \in {"absent", "malformed", "aware"}
    /\ ~whole_job_due(parse_iso(job.created_at), now - JOB_RETENTION_DAYS)
    /\ FlagOr(job.has_raw_audio, TRUE)

\* expires_at, or created_at + RAW_AUDIO_ONLY_DAYS when it is absent, lies
\* before the day of the run.
RawDeadlinePast(job, now) ==
    LET deadline == IF job.expires_at.kind = "aware" THEN job.expires_at.day
                    ELSE job.created_at.day + RAW_AUDIO_ONLY_DAYS
    IN  /\ job.expires_at.kind = "aware" \/ job.created_at.kind = "aware"
        /\ deadline < now

\* C15: in a run that deletes, a non-pinned job that is not due for the
\* whole-job purge and has raw audio loses uploads/<job_id> exactly when
\* its raw deadline is in the past at the time of the run, and keeps its
\* record and results/<job_id> as they were.
C15_RawPurgedWhenPastDeadline ==
    (PurgeUnderWay /\ ~purge.dry_run) =>
        \A j \in Visited :
            (RawOnlyCandidate(purge.jobs_before[j], purge.now)
             /\ is_dir(purge.fs_before, "uploads", j))
                => /\ ~Remains("uploads", j) <=> RawDeadlinePast(purge.jobs_before[j], purge.now)
                   /\ jobs[j] = purge.jobs_before[j]
                   /\ Under(fs, "results", j) = Under(purge.fs_before, "results", j)

\* C16: a dry run removes nothing: whatever the records (old, expired,
\* pinned, unreadable, malformed dates), the job records and the entries
\* under uploads/ and results/ stay as they were when the run began.
C16_DryRunReadOnly ==
    (PurgeUnderWay /\ purge.dry_run) => jobs = purge.jobs_before /\ fs = purge.fs_before

\* A dry run has gone through the listing, which held a job due for the
\* whole-job purge with its uploads in the service's layout and one due
\* for the raw-audio purge.
C16_Witness ==
    /\ purge.pc = "finished"
    /\ purge.dry_run
    /\ purge.totals.raw = 1
    /\ \E j \in Visited :
        /\ Considered(purge.jobs_before[j])
        /\ OlderThanRetention(purge.jobs_before[j], purge.now)
        /\ Dir(<<"uploads", j, "inhouse">>) \in fs
        /\ jobs[j].exists

ApplyingLine == "Applying alignment with FFmpeg..."

ExitCodeLine(rc) == "[ERROR] FFmpeg returned non-zero exit code: " \o ToString(rc)

TimesLogged(logs, line) == Cardinality({i \in 1..Len(logs) : logs[i] = line})

FailureLogged(logs) == \E rc \in ExitCodes \ {0} : TimesLogged(logs, ExitCodeLine(rc)) = 1

\* The command of a finished job is the one built from the offset the
\* result reports, and both plots are reported and on disk.
ResultIntact(j) ==
    LET res == jobs[j].result
        r == req[j]
        rebuilt == build_align_command(PathStr(UploadPath(j, "inhouse", r.inhouse_name)),
                                       PathStr(UploadPath(j, "external", r.external_name)),
                                       r.sr, r.mode, res.offset_sec, r.prefer_trim,
                                       IF r.apply THEN PathStr(ResultPath(j, "aligned.wav"))
                                       ELSE "None")
    IN  /\ res.offset_sec \in JobOffsets
        /\ rebuilt.raised = ""
        /\ res.ffmpeg_command = rebuilt.value
        /\ res.waveform_png_path = ResultPath(j, "waveform_overlay.png")
        /\ res.similarity_png_path = ResultPath(j, "similarity_curve.png")
        /\ File(res.waveform_png_path) \in fs
        /\ File(res.similarity_png_path) \in fs

\* C17: the command is run only when apply is set and then once; a non-zero
\* exit is logged with its code, no aligned audio path is reported (a path
\* is reported only for the file a successful run wrote), and the offset,
\* the command and the plot paths are returned all the same.
C17_ApplyOnceAndReportFailure ==
    \A j \in JobIds :
        jobs[j].status = "completed" =>
            LET res == jobs[j].result
            IN  /\ ~req[j].apply =>
                     /\ res.logs = <<>>
                     /\ res.aligned_audio_path = <<>>
                     /\ File(ResultPath(j, "aligned.wav")) \notin fs
                /\ req[j].apply =>
                     /\ TimesLogged(res.logs, ApplyingLine) = 1
                     /\ Len(res.logs) = 2
                     /\ FailureLogged(res.logs) <=> res.aligned_audio_path = <<>>
                /\ res.aligned_audio_path # <<>> =>
                     /\ res.aligned_audio_path = ResultPath(j, "aligned.wav")
                     /\ File(res.aligned_audio_path) \in fs
                /\ ResultIntact(j)

\* A job whose applied command exited with code 2 is completed with a
\* non-zero offset.
C17_Witness ==
    \E j \in JobIds :
        /\ jobs[j].status = "completed"
        /\ req[j].apply
        /\ TimesLogged(jobs[j].result.logs, ExitCodeLine(2)) = 1
        /\ jobs[j].result.aligned_audio_path = <<>>
        /\ jobs[j].result.offset_sec # 0
        /\ jobs[j].result.ffmpeg_command # NoCommand

\* The file that stays where it is.
NonMoving(c) == IF c.mode = "external_to_inhouse" THEN c.inhouse_path ELSE c.external_path

OutputOverridden(c) == c.out_audio \notin {"None", ""}

\* The input is the moving file and the output is the caller's path when
\* one is given, else the default named after the moving file.
InputAndOutputByDirection ==
    /\ call.mode = "external_to_inhouse" => ret.value.input = call.external_path
    /\ call.mode = "inhouse_to_external" => ret.value.input = call.inhouse_path
    /\ OutputOverridden(call) => ret.value.output = call.out_audio
    /\ (~OutputOverridden(call) /\ call.mode = "external_to_inhouse")
          => ret.value.output = "external_aligned.wav"
    /\ (~OutputOverridden(call) /\ call.mode = "inhouse_to_external")
          => ret.value.output = "inhouse_aligned.wav"

\* C18 as stated: the input is the moving file, the output is the default
\* of the direction unless the caller supplies one, and the non-moving
\* file appears nowhere in the command.
C18_NonMovingNeverAppears ==
    ret.raised = "" =>
        /\ InputAndOutputByDirection
        /\ NonMoving(call) \notin {ret.value.input, ret.value.output}

\* C18, amended: the non-moving file is never the input, and it is the
\* output only when the caller supplied it as the output path.
C18_NonMovingNeverInput ==
    ret.raised = "" =>
        /\ InputAndOutputByDirection
        /\ NonMoving(call) # ret.value.input
        /\ NonMoving(call) = ret.value.output => call.out_audio = NonMoving(call)

\* The in-house file moves and the caller names the external file as the
\* output.
C18_Witness ==
    /\ ret.raised = ""
    /\ call.mode = "inhouse_to_external"
    /\ call.out_audio = call.external_path
    /\ ret.value.input = "inhouse.wav"
    /\ ret.value.output = "external.wav"

\* The lag bound the estimator is to use on the analysis arrays.
LagBound ==
    IF args.max_search > 0 THEN SamplesIn(args.max_search, args.sr)
    ELSE Min(Len(a_an), Len(b_an)) - 1

\* The lags of the returned curve and the selected lag, in samples.
CurveLags == {anchor.curve.lags_sec[i] \div Period(args.sr) : i \in 1..Len(anchor.curve.lags_sec)}

BestLag == (0 - anchor.curve.offset_sec) \div Period(args.sr)

XcorrChosen == AnchorStepDone /\ args.anchor_mode = "xcorr"

\* C19: on non-empty arrays of equal or unequal lengths the estimator does
\* not fail; its lags are those of the full correlation within max_lag of
\* zero, max_lag being int(max_search * sr) for a positive max_search and
\* min(len(a), len(b)) - 1 otherwise; lag 0 is always among them; the lag
\* selected lies within max_lag and within -(len(b) - 1) .. len(a) - 1, so
\* the offset is at most max_lag / sr in size.
C19_LagBound ==
    (XcorrChosen /\ a_an # <<>> /\ b_an # <<>>) =>
        /\ pc # "failed" /\ anchor.raised = ""
        /\ LagBound >= 0
        /\ CurveLags = {l \in (1 - Len(b_an))..(Len(a_an) - 1) : Abs(l) <= LagBound}
        /\ Len(anchor.curve.corr) = Len(anchor.curve.lags_sec)
        /\ 0 \in CurveLags
        /\ BestLag \in CurveLags
        /\ Abs(BestLag) <= LagBound
        /\ BestLag >= 0 - (Len(b_an) - 1) /\ BestLag <= Len(a_an) - 1
        /\ Abs(anchor.curve.offset_sec) <= LagBound * Period(args.sr)

\* Arrays of unequal lengths with the search bound left at zero, and the
\* lag selected is the largest the shorter array allows.
C19_Witness ==
    /\ XcorrChosen
    /\ Len(a_an) >= 2 /\ Len(b_an) > Len(a_an)
    /\ args.max_search = 0
    /\ Abs(BestLag) = Len(a_an) - 1
    /\ BestLag # 0

\* The hop in samples, the last start and the starts the loop ranges over.
HopLength == IF SamplesIn(args.hop_sec, args.sr) >= 1 THEN SamplesIn(args.hop_sec, args.sr) ELSE 1

LastStart == IF Len(b_an) > TemplateLength THEN Len(b_an) - TemplateLength ELSE 0

WindowStarts == {st \in 0..LastStart : st % HopLength = 0}

WindowAt(st) == PySlice(b_an, st, st + TemplateLength)

\* The window at st is as similar to the template as min_sim asks.
Reaches(st) ==
    sim_at_least(mfcc_mean(PySlice(a_an, 0, TemplateLength)), mfcc_mean(WindowAt(st)),
                 args.min_sim)

\* The window at st is strictly more similar to the template than the one
\* at su, both having non-zero features.
MoreSimilar(st, su) ==
    LET v1 == mfcc_mean(PySlice(a_an, 0, TemplateLength))
        x == mfcc_mean(WindowAt(st))
        y == mfcc_mean(WindowAt(su))
    IN  /\ Dot(x, x) > 0 /\ Dot(y, y) > 0
        /\ Dot(v1, x) * Dot(v1, x) * Dot(y, y) > Dot(v1, y) * Dot(v1, y) * Dot(x, x)

\* C20: with a reference of at least template length, the content search
\* scores the windows at 0, hop, 2 * hop, ... in that order, hop being
\* max(1, int(hop_sec * sr)) and so at least 1 also for hop_sec <= 0; it
\* stops at the first window that reaches min_sim and returns its start / sr,
\* whatever later windows would score; it returns no anchor exactly when it
\* has scored every window and none reaches min_sim.  (The search ends
\* otherwise only when the feature extraction raises, on a target without
\* samples.)
C20_FirstMatch ==
    (ContentSearched /\ Len(a_an) >= TemplateLength) =>
        LET hit == anchor.best_b
            n == Len(hit.visited)
        IN  /\ HopLength >= 1
            /\ \A i \in 1..n : hit.visited[i] = (i - 1) * HopLength
            /\ \A i \in 1..n : hit.visited[i] \in WindowStarts
            /\ hit.found =>
                 /\ n >= 1
                 /\ hit.raised = ""
                 /\ hit.time = hit.visited[n] * Period(args.sr)
                 /\ Reaches(hit.visited[n])
                 /\ \A st \in WindowStarts : st < hit.visited[n] => ~Reaches(st)
            /\ (~hit.found /\ hit.raised = "") =>
                 /\ {hit.visited[i] : i \in 1..n} = WindowStarts
                 /\ \A st \in WindowStarts : ~Reaches(st)
            /\ hit.raised # "" => b_an = <<>> /\ n = 0

\* The search stopped at the first window although the next one is more
\* similar to the template.
C20_Witness ==
    /\ ContentSearched
    /\ Len(a_an) >= TemplateLength
    /\ args.min_sim > 0
    /\ anchor.best_b.found
    /\ anchor.best_b.visited = <<0>>
    /\ 1 \in WindowStarts
    /\ MoreSimilar(1, 0)

\* The windows the content search handed to the feature extraction: those
\* it scored and, when the extraction raised, the one it raised on.
WindowsTried ==
    LET hit == anchor.best_b
        scored == {hit.visited[i] : i \in 1..Len(hit.visited)}
    IN  IF hit.raised # "" THEN scored \cup {Len(hit.visited) * HopLength} ELSE scored

\* C21: every window the content search scores starts at an offset in
\* 0 .. len(b) - template_length and has exactly template_length samples;
\* so with a target shorter than the template, an empty one included, no
\* window is scored and the result is that no anchor was found.
C21_WindowsInsideTarget ==
    (ContentSearched /\ Len(a_an) >= TemplateLength) =>
        /\ \A st \in WindowsTried :
             /\ st >= 0 /\ st <= Len(b_an) - TemplateLength
             /\ Len(WindowAt(st)) = TemplateLength
        /\ Len(b_an) < TemplateLength =>
             /\ WindowsTried = {}
             /\ ~anchor.best_b.found
             /\ anchor.best_b.raised = ""

WindowBuilt == pc # "window" /\ pc # "idle"

\* The lengths left by the start offsets.
RefAfterStart ==
    IF args.ref_start_sec > 0
    THEN Len(args.a_raw) - Min(Len(args.a_raw), SamplesIn(args.ref_start_sec, args.sr))
    ELSE Len(args.a_raw)

TargetAfterStart ==
    IF args.search_start_sec > 0
    THEN Len(args.b_raw) - Min(Len(args.b_raw), SamplesIn(args.search_start_sec, args.sr))
    ELSE Len(args.b_raw)

RefCap == SamplesIn(args.analysis_sec, args.sr)

WindowPad ==
    IF args.max_search > 0 THEN SamplesIn(args.max_search, args.sr)
    ELSE IF Len(a_an) > 0 /\ TargetAfterStart > 0 THEN Min(Len(a_an), TargetAfterStart) - 1
    ELSE 0

\* The bounds on the analysis arrays, with the lengths exactly those the
\* slicing and the two cuts leave: the gate takes no sample away.
WindowBounds ==
    WindowBuilt =>
        /\ args.analysis_sec > 0 => Len(a_an) <= RefCap
        /\ Len(b_an) <= Len(a_an) + 2 * WindowPad
        /\ Len(a_an) = IF args.analysis_sec > 0 THEN Min(RefAfterStart, RefCap) ELSE RefAfterStart
        /\ Len(b_an) = Min(TargetAfterStart, Len(a_an) + 2 * WindowPad)
        /\ Len(apply_gate_db(a_an, args.threshold_db)) = Len(a_an)
        /\ Len(apply_gate_db(b_an, args.threshold_db)) = Len(b_an)

\* C22: once the window builder has run, the reference has at most
\* int(analysis_sec * sr) samples when analysis_sec > 0, the target at most
\* len(reference) + 2 * pad, pad being int(max_search * sr) for a positive
\* max_search and else min(len(reference), len(target before the cut)) - 1
\* (0 when either is empty); the gate changes no length; and no step of the
\* run changes the raw signals.
C22_AnalysisWindowBounds ==
    /\ []WindowBounds
    /\ [][args'.a_raw = args.a_raw /\ args'.b_raw = args.b_raw]_vars

\* A reference cut by the cap with a sample silenced by the gate, and a
\* target cut to the reference plus the pad on both sides.
C22_Witness ==
    /\ WindowBuilt
    /\ args.analysis_sec > 0 /\ Len(a_an) = RefCap /\ RefAfterStart > RefCap
    /\ args.threshold_db > 0
    /\ \E i \in 1..Len(a_an) : a_an[i] = 0 /\ args.a_raw[i] # 0
    /\ args.max_search > 0
    /\ Len(b_an) = Len(a_an) + 2 * WindowPad /\ TargetAfterStart > Len(b_an)

TerminalStatuses == {"completed", "failed"}

\* The steps a persisted status may take; "" stands for no record.
StatusSteps ==
    {<<"", "queued">>, <<"queued", "running">>,
     <<"running", "completed">>, <<"running", "failed">>}

\* What holds of the records in every state: a task that has not started
\* has its record, queued; a task that has ended has a terminal record,
\* failed with the error or completed with the result.
JobRecordsInStep ==
    \A j \in JobIds :
        /\ task[j] = "scheduled" => jobs[j].exists /\ jobs[j].status = "queued"
        /\ task[j] = "running" => jobs[j].exists /\ jobs[j].status = "running"
        /\ task[j] = "done" =>
             /\ jobs[j].exists /\ jobs[j].status \in TerminalStatuses
             /\ jobs[j].status = "failed" <=> jobs[j].error # ""
             /\ jobs[j].status = "completed" <=> jobs[j].result.pytype = "dict"
        /\ task[j] = "none" => ~jobs[j].exists

\* What holds of every step: statuses move along StatusSteps only, a
\* terminal record is left as it is, and a GET answers 404 exactly when the
\* id has no record.
JobRecordsStep ==
    \A j \in JobIds :
        /\ jobs'[j].status # jobs[j].status =>
             <<jobs[j].status, jobs'[j].status>> \in StatusSteps
        /\ jobs[j].status \in TerminalStatuses => jobs'[j] = jobs[j]
        /\ get_alignment_job(j) => (resp'.code = 404 <=> ~jobs[j].exists)

\* C23: under every interleaving of GET requests with the background
\* tasks, the status in jobs/<job_id>.json only advances queued -> running
\* -> completed or failed; the record is there, queued, before the task
\* starts; a terminal status is never rewritten; a run that raises ends in
\* failed and never stays in running; and GET answers 404 exactly for ids
\* without a record.
C23_StatusProgression == []JobRecordsInStep /\ [][JobRecordsStep]_vars

\* A GET found a partial record of a job whose run then raised:
\* the job is failed, while another id without a record is still unknown.
C23_Witness ==
    /\ resp.op = "GET" /\ resp.code = 500
    /\ task[resp.job_id] = "done"
    /\ jobs[resp.job_id].status = "failed"
    /\ \E j \in JobIds : ~jobs[j].exists

\* The job was posted through the service and its run has ended by the
\* time the script lists it: the record is {status, result} or {status,
\* error}, as _run writes it.
ServiceFinished(j) ==
    /\ issued # {} /\ j \in issued
    /\ purge.jobs_before[j].exists
    /\ purge.jobs_before[j].status \in TerminalStatuses
    /\ purge.jobs_before[j].keys \in {{"status", "result"}, {"status", "error"}}

\* C24: a job created through POST and never pinned is gone, record,
\* uploads and results, after a run of the script that deletes and takes
\* place more than JOB_RETENTION_DAYS after the job was created; its
\* uploads are gone after such a run more than RAW_AUDIO_ONLY_DAYS after.
C24_ServiceJobsPurged ==
    (purge.pc = "finished" /\ ~purge.dry_run) =>
        \A j \in JobIds :
            ServiceFinished(j) =>
                /\ purge.now > RAW_AUDIO_ONLY_DAYS => ~Remains("uploads", j)
                /\ purge.now > JOB_RETENTION_DAYS =>
                     /\ ~jobs[j].exists
                     /\ ~Remains("uploads", j)
                     /\ ~Remains("results", j)

=============================================================================
